---- MODULE Spec2Model ----
(***************************************************************************)
(* A model of CHEBYSHEV/TVB_Method/cheb_utils.py: the grevlex comparison   *)
(* of Term, the monomial enumerators mon_combos and mon_combos_highest,    *)
(* and the array helpers row_swap_matrix, clean_zeros_from_matrix,         *)
(* slice_top, match_size and sort_polys_by_degree.                         *)
(*                                                                         *)
(* Every function of the file is synchronous, so each is one action: the   *)
(* initial state holds the objects a caller passes, the action applies the *)
(* function, records the arguments of the call in `call`, the returned     *)
(* value in `ret`, the exception that left the call (if any) in `raised`,  *)
(* and leaves in the object variables what the objects hold afterwards.    *)
(* Python sequences are indexed from 0 and TLA+ sequences from 1: an index *)
(* variable of the code (spot, a column, an argsort entry) keeps its       *)
(* Python value and is shifted by one where a sequence is read.            *)
(***************************************************************************)
EXTENDS Integers, Sequences, FiniteSets

VARIABLES
    pc,        \* "start" before the call, "done" after it
    call,      \* the arguments of the call, as they were when it was made
    ret,       \* the value the call returned
    raised,    \* the exception that left the call, "" when it returned
    terms,     \* the Term objects being compared (their val tuples)
    mon,       \* the caller's list passed to mon_combos / mon_combos_highest
    matrix,    \* the caller's 2-D array passed to row_swap_matrix
    heap,      \* the numeric buffers, by object identity
    polys      \* the caller's list passed to sort_polys_by_degree

vars == <<pc, call, ret, raised, terms, mon, matrix, heap, polys>>

\* The value of a variable a specification does not use, and of `ret` and
\* `call` before the call.
None == <<>>

----------------------------------------------------------------------------
(* Python and numpy built-ins the file uses.                               *)

RECURSIVE sum(_)
sum(val) == IF val = <<>> THEN 0 ELSE Head(val) + sum(Tail(val))

reversed(val) == [i \in 1..Len(val) |-> val[Len(val) + 1 - i]]

\* zip stops at the end of the shorter of its two arguments.
zip(x, y) ==
    LET n == IF Len(x) < Len(y) THEN Len(x) ELSE Len(y)
    IN  [i \in 1..n |-> <<x[i], y[i]>>]

\* All sequences of length n over the set S.
Tuples(n, S) == [1..n -> S]

----------------------------------------------------------------------------
(* Term.__lt__                                                             *)

\* The for loop of __lt__ over the zipped reversed tuples, from pair k on:
\* the first pair that differs decides, and a loop that ends returns False.
RECURSIVE lt_loop(_, _)
lt_loop(pairs, k) ==
    IF k > Len(pairs) THEN FALSE
    ELSE IF pairs[k][1] < pairs[k][2] THEN FALSE
    ELSE IF pairs[k][1] > pairs[k][2] THEN TRUE
    ELSE lt_loop(pairs, k + 1)

\* The tuples as the tie-break loop sees them.
lt_scan_mut(self, other) == zip(self, other)
lt_scan(self, other) == zip(reversed(self), reversed(other))

\* self < other with order = 'grevlex'. No branch raises: the lengths of the
\* two tuples are never compared.
Term_lt(self, other) ==
    IF sum(self) < sum(other) THEN TRUE
    ELSE IF sum(self) > sum(other) THEN FALSE
    ELSE lt_loop(lt_scan(self, other), 1)

\* Bounds of the Term specification.
MaxLen == 2
MaxExp == 2

Exponents == UNION {Tuples(n, 0..MaxExp) : n \in 1..MaxLen}

Idle(used) ==
    /\ "terms" \in used \/ terms = None
    /\ "mon" \in used \/ mon = None
    /\ "matrix" \in used \/ matrix = None
    /\ "heap" \in used \/ heap = None
    /\ "polys" \in used \/ polys = None

InitTerm ==
    /\ pc = "start"
    /\ call = None
    /\ ret = None
    /\ raised = ""
    /\ terms \in [1..3 -> Exponents]
    /\ Idle({"terms"})

\* Every ordered pair of the three Terms is compared with <, as a sort of
\* the Terms does.
Compare ==
    /\ pc = "start"
    /\ pc' = "done"
    /\ call' = [fn |-> "Term.__lt__", terms |-> terms]
    /\ ret' = [p \in (1..3) \X (1..3) |-> Term_lt(terms[p[1]], terms[p[2]])]
    /\ raised' = ""
    /\ UNCHANGED <<terms, mon, matrix, heap, polys>>

NextTerm == Compare

SpecTerm == InitTerm /\ [][NextTerm]_vars

\* Claim C3's relation, stated position by position: a < b iff a has the
\* smaller sum, or the sums are equal and at the last position where the
\* tuples differ a holds the larger entry.
GrevlexLess(a, b) ==
    \/ sum(a) < sum(b)
    \/ /\ sum(a) = sum(b)
       /\ \E i \in 1..Len(a) :
            /\ a[i] > b[i]
            /\ \A j \in (i + 1)..Len(a) : a[j] = b[j]

C9_UnequalLengthRaises ==
    pc = "done" =>
        \A i, j \in 1..3 :
            Len(terms[i]) # Len(terms[j]) =>
                (raised # "" /\ ret[<<i, j>>] \notin BOOLEAN)

----------------------------------------------------------------------------
(* mon_combos and mon_combos_highest                                       *)

\* range(n): 0, 1, ..., n-1.
range(n) == [i \in 1..n |-> i - 1]

\* lst[i] = v on a Python list.
SetItem(lst, i, v) == [lst EXCEPT ![i + 1] = v]

\* The values the last position takes in mon_combos: range(num_left+1).
last_values_mut(num_left) == range(num_left)
last_values(num_left) == range(num_left + 1)

\* The value the last position takes in mon_combos_highest.
highest_value_mut(num_left) == IF num_left > 0 THEN num_left - 1 ELSE 0
highest_value(num_left) == num_left

\* Both functions return [answers, mon]: the list returned and what the
\* list object passed as mon holds when the call returns. The callee writes
\* into the object it is given (mon[spot] = i), and at an inner position
\* that object is the caller's temp, so temp is threaded through the loop.
RECURSIVE mon_combos(_, _, _)
RECURSIVE mon_combos_loop(_, _, _, _, _)
mon_combos_loop(temp, num_left, spot, i, answers) ==
    IF i > num_left THEN answers
    ELSE LET r == mon_combos(SetItem(temp, spot, i), num_left - i, spot + 1)
         IN  mon_combos_loop(r.mon, num_left, spot, i + 1, answers \o r.answers)

mon_combos(m, num_left, spot) ==
    IF Len(m) = spot + 1
    THEN LET vals == last_values(num_left)
         IN  [answers |-> [k \in 1..Len(vals) |-> SetItem(m, spot, vals[k])],
              mon |-> IF vals = <<>> THEN m
                      ELSE SetItem(m, spot, vals[Len(vals)])]
    ELSE IF num_left = 0
    THEN [answers |-> <<m>>, mon |-> m]
    ELSE [answers |-> mon_combos_loop(m, num_left, spot, 0, <<>>), mon |-> m]

RECURSIVE mon_combos_highest(_, _, _)
RECURSIVE mon_combos_highest_loop(_, _, _, _, _)
mon_combos_highest_loop(temp, num_left, spot, i, answers) ==
    IF i > num_left THEN answers
    ELSE LET r == mon_combos_highest(SetItem(temp, spot, i), num_left - i, spot + 1)
         IN  mon_combos_highest_loop(r.mon, num_left, spot, i + 1,
                                     answers \o r.answers)

mon_combos_highest(m, num_left, spot) ==
    IF Len(m) = spot + 1
    THEN LET last == SetItem(m, spot, highest_value(num_left))
         IN  [answers |-> <<last>>, mon |-> last]
    ELSE IF num_left = 0
    THEN [answers |-> <<m>>, mon |-> m]
    ELSE [answers |-> mon_combos_highest_loop(m, num_left, spot, 0, <<>>),
          mon |-> m]

\* Bounds of the enumerator specification: the dimension (the length of mon)
\* and the degree (num_left).
MaxDim == 3
MaxDegree == 3

\* What a list passed as mon holds: zeros at a top-level call, and the
\* values already fixed at the positions before spot at a recursive one.
MonEntries == {0, 1}

InitMon ==
    /\ pc = "start"
    /\ call = None
    /\ ret = None
    /\ raised = ""
    /\ mon \in UNION {Tuples(n, MonEntries) : n \in 1..MaxDim}
    /\ Idle({"mon"})

CallMonCombos ==
    /\ pc = "start"
    /\ \E num_left \in 0..MaxDegree, spot \in 0..(Len(mon) - 1) :
         LET r == mon_combos(mon, num_left, spot)
         IN  /\ call' = [fn |-> "mon_combos", mon |-> mon,
                         num_left |-> num_left, spot |-> spot]
             /\ ret' = r.answers
             /\ mon' = r.mon
    /\ pc' = "done"
    /\ raised' = ""
    /\ UNCHANGED <<terms, matrix, heap, polys>>

CallMonCombosHighest ==
    /\ pc = "start"
    /\ \E num_left \in 0..MaxDegree, spot \in 0..(Len(mon) - 1) :
         LET r == mon_combos_highest(mon, num_left, spot)
         IN  /\ call' = [fn |-> "mon_combos_highest", mon |-> mon,
                         num_left |-> num_left, spot |-> spot]
             /\ ret' = r.answers
             /\ mon' = r.mon
    /\ pc' = "done"
    /\ raised' = ""
    /\ UNCHANGED <<terms, matrix, heap, polys>>

NextMon == CallMonCombos \/ CallMonCombosHighest

SpecMon == InitMon /\ [][NextMon]_vars

\* A top-level call as the claims describe it: an all-zero list, spot = 0.
TopLevel(fn) ==
    /\ pc = "done"
    /\ call.fn = fn
    /\ call.spot = 0
    /\ \A i \in 1..Len(call.mon) : call.mon[i] = 0

\* C(n, k), by Pascal's rule.
RECURSIVE Binomial(_, _)
Binomial(n, k) ==
    IF k < 0 \/ k > n THEN 0
    ELSE IF k = 0 \/ k = n THEN 1
    ELSE Binomial(n - 1, k - 1) + Binomial(n - 1, k)

Elements(seq) == {seq[k] : k \in 1..Len(seq)}

\* C1: a top-level mon_combos returns exactly the tuples of length dim with
\* non-negative entries summing to at most degree, each once, so
\* C(dim+degree, dim) of them.
C1_MonCombosEnumeratesUpTo ==
    TopLevel("mon_combos") =>
        LET dim == Len(call.mon)
            degree == call.num_left
            upto == {t \in Tuples(dim, 0..degree) : sum(t) <= degree}
        IN  /\ Elements(ret) = upto
            /\ Len(ret) = Cardinality(upto)
            /\ Len(ret) = Binomial(dim + degree, dim)

\* A top-level call in three variables with degree 2 has returned its ten
\* monomials.
C1_Witness ==
    /\ TopLevel("mon_combos")
    /\ Len(call.mon) = 3
    /\ call.num_left = 2
    /\ Len(ret) = 10

\* C2: a top-level mon_combos_highest with degree >= 1 returns
\* C(dim+degree-1, dim-1) tuples, each summing to exactly degree.
C2_MonCombosHighestExactDegree ==
    (TopLevel("mon_combos_highest") /\ call.num_left >= 1) =>
        LET dim == Len(call.mon)
            degree == call.num_left
        IN  /\ Len(ret) = Binomial(dim + degree - 1, dim - 1)
            /\ \A k \in 1..Len(ret) : sum(ret[k]) = degree

\* A top-level call in three variables with degree 2 has returned its six
\* monomials.
C2_Witness ==
    /\ TopLevel("mon_combos_highest")
    /\ Len(call.mon) = 3
    /\ call.num_left = 2
    /\ Len(ret) = 6

\* C10: a top-level call of either enumerator leaves the caller's list as
\* it was.
C10_TopLevelMonUnchanged ==
    (TopLevel("mon_combos") \/ TopLevel("mon_combos_highest")) =>
        mon = call.mon

----------------------------------------------------------------------------
(* np.argsort, row_swap_matrix and sort_polys_by_degree                    *)

\* np.argsort(keys) with its default kind, 'quicksort': an index array that
\* puts keys in non-decreasing order. numpy documents that kind as not
\* stable: which of two equal keys comes first depends on the numpy build
\* and on the number of keys (a short array is insertion-sorted and keeps
\* its order, a longer one is partitioned and does not), so every sorting
\* index array is a possible result.
argsort(keys) ==
    {order \in [1..Len(keys) -> 0..(Len(keys) - 1)] :
        /\ \A i, j \in 1..Len(keys) : i # j => order[i] # order[j]
        /\ \A i, j \in 1..Len(keys) :
             i < j => keys[order[i] + 1] <= keys[order[j] + 1]}

\* np.where(row != 0)[0]: the indices of the nonzero entries, ascending.
RECURSIVE where_nonzero(_, _)
where_nonzero(row, k) ==
    IF k > Len(row) THEN <<>>
    ELSE IF row[k] # 0 THEN <<k - 1>> \o where_nonzero(row, k + 1)
    ELSE where_nonzero(row, k + 1)

\* np.where(row != 0)[0][0], given the nonzero indices (not empty).
first_nonzero_mut(nonzero) == nonzero[Len(nonzero)]
first_nonzero(nonzero) == nonzero[1]

\* The loop of row_swap_matrix: [raised, value], value the list
\* leading_mon_columns. Indexing the empty index array of an all-zero row
\* with [0] raises IndexError and ends the call.
RECURSIVE leading_mon_columns(_, _)
leading_mon_columns(m, r) ==
    IF r > Len(m) THEN [raised |-> "", value |-> <<>>]
    ELSE LET nonzero == where_nonzero(m[r], 1)
             rest == leading_mon_columns(m, r + 1)
         IN  IF nonzero = <<>> THEN [raised |-> "IndexError", value |-> None]
             ELSE IF rest.raised # "" THEN rest
             ELSE [raised |-> "",
                   value |-> <<first_nonzero(nonzero)>> \o rest.value]

\* matrix[order]: a new array holding the rows order names, in that order.
take(m, order) == [i \in 1..Len(order) |-> m[order[i] + 1]]

\* Bounds of the row_swap_matrix specification.
MaxRows == 3
MaxCols == 2

\* The entries of the matrices: zero and one nonzero value.
MatrixEntries == {0, 1}

InitRowSwap ==
    /\ pc = "start"
    /\ call = None
    /\ ret = None
    /\ raised = ""
    /\ matrix \in UNION {Tuples(r, Tuples(c, MatrixEntries)) :
                           r \in 1..MaxRows, c \in 1..MaxCols}
    /\ Idle({"matrix"})

CallRowSwapMatrix ==
    /\ pc = "start"
    /\ pc' = "done"
    /\ call' = [fn |-> "row_swap_matrix", matrix |-> matrix]
    /\ LET cols == leading_mon_columns(matrix, 1)
       IN  IF cols.raised # ""
           THEN raised' = cols.raised /\ ret' = None
           ELSE /\ raised' = ""
                /\ \E order \in argsort(cols.value) : ret' = take(matrix, order)
    /\ UNCHANGED <<terms, mon, matrix, heap, polys>>

NextRowSwap == CallRowSwapMatrix

SpecRowSwap == InitRowSwap /\ [][NextRowSwap]_vars

\* The leading-nonzero column of a row that has a nonzero entry, stated
\* as the claim states it.
Leading(row) ==
    CHOOSE c \in 0..(Len(row) - 1) :
        row[c + 1] # 0 /\ \A d \in 0..(c - 1) : row[d + 1] = 0

NoZeroRow(m) == \A r \in 1..Len(m) : \E c \in 1..Len(m[r]) : m[r][c] # 0

\* The index arrays that are permutations of 0..n-1.
IndexPerms(n) ==
    {p \in [1..n -> 0..(n - 1)] : \A i, j \in 1..n : i # j => p[i] # p[j]}

MaxPolys == 3
MaxPolyDegree == 2

Polys(n) ==
    {ps \in [1..n -> [name : 1..n, degree : 0..MaxPolyDegree]] :
        \A i \in 1..n : ps[i].name = i}

\* What the function returns from sorted_polys and the flag.
by_flag_mut(sorted_polys, ascending) == sorted_polys
by_flag(sorted_polys, ascending) ==
    IF ascending THEN sorted_polys ELSE reversed(sorted_polys)

InitSortPolys ==
    /\ pc = "start"
    /\ call = None
    /\ ret = None
    /\ raised = ""
    /\ polys \in UNION {Polys(n) : n \in 0..MaxPolys}
    /\ Idle({"polys"})

CallSortPolysByDegree ==
    /\ pc = "start"
    /\ pc' = "done"
    /\ raised' = ""
    /\ \E ascending \in BOOLEAN :
         LET degs == [i \in 1..Len(polys) |-> polys[i].degree]
         IN  \E argsort_list \in argsort(degs) :
               /\ call' = [fn |-> "sort_polys_by_degree", polys |-> polys,
                           ascending |-> ascending]
               /\ ret' = by_flag(take(polys, argsort_list), ascending)
    /\ UNCHANGED <<terms, mon, matrix, heap, polys>>

NextSortPolys == CallSortPolysByDegree

SpecSortPolys == InitSortPolys /\ [][NextSortPolys]_vars

\* ret holds the polynomials of the input, each once, ordered by degree in
\* the direction of the flag.
SortedByFlag ==
    /\ \E p \in IndexPerms(Len(call.polys)) : ret = take(call.polys, p)
    /\ \A i, j \in 1..Len(ret) :
         i < j => IF call.ascending THEN ret[i].degree <= ret[j].degree
                  ELSE ret[i].degree >= ret[j].degree

\* C7 as stated: the result is the input sorted by degree in the direction
\* of the flag, polynomials of equal degree in their input order.
C7_SortPolysStable ==
    pc = "done" =>
        /\ SortedByFlag
        /\ \A i, j \in 1..Len(ret) :
             (i < j /\ ret[i].degree = ret[j].degree) => ret[i].name < ret[j].name

\* C7 as amended: the result is a permutation of the input ordered by
\* degree in the direction of the flag, and the input list is not modified.
C7_SortPolysByDegree ==
    pc = "done" => (raised = "" /\ polys = call.polys /\ SortedByFlag)

\* Three polynomials, two of one degree, have been sorted in descending
\* order.
C7_Witness ==
    /\ pc = "done"
    /\ ~call.ascending
    /\ Len(ret) = 3
    /\ ret # call.polys
    /\ \E i, j \in 1..3 : i # j /\ ret[i].degree = ret[j].degree
    /\ \E i, j \in 1..3 : ret[i].degree # ret[j].degree

----------------------------------------------------------------------------
(* numpy arrays: clean_zeros_from_matrix, slice_top and match_size         *)

\* An ndarray is [shape, data]: data maps every index tuple (Python
\* indices, from 0) to the entry there. The entries stand for float64
\* values, or integers float64 holds exactly: np.zeros makes a float64
\* buffer, and storing such an entry in it keeps its value. The buffers
\* live in heap under their names; a variable of the code that holds an
\* array holds its name.
Indices(shape) ==
    LET lengths == {shape[k] : k \in 1..Len(shape)}
        longest == IF lengths = {} THEN 0
                   ELSE CHOOSE n \in lengths : \A m \in lengths : n >= m
    IN  {idx \in [1..Len(shape) -> 0..(longest - 1)] :
            \A k \in 1..Len(shape) : idx[k] < shape[k]}

Max(x, y) == IF x >= y THEN x ELSE y
Min(x, y) == IF x <= y THEN x ELSE y

\* np.zeros(shape).
zeros(shape) == [shape |-> shape, data |-> [idx \in Indices(shape) |-> 0]]

\* Whether an array of shape vshape broadcasts to shape: the axes are
\* aligned at the last one, and each axis of vshape has the length of its
\* partner or length 1.
broadcasts(vshape, shape) ==
    /\ Len(vshape) <= Len(shape)
    /\ \A k \in 1..Len(vshape) :
         LET n == shape[k + Len(shape) - Len(vshape)]
         IN  vshape[k] = n \/ vshape[k] = 1

\* The entry of value that broadcasting puts at index idx of the shape.
broadcast_at(value, shape, idx) ==
    LET off == Len(shape) - Len(value.shape)
    IN  value.data[[k \in 1..Len(value.shape) |->
                       IF value.shape[k] = 1 THEN 0 ELSE idx[k + off]]]

\* np.maximum(x, y) of two shape tuples: [raised, value]. The tuples become
\* 1-D arrays, which broadcast when they have one length or one of them has
\* a single entry; otherwise the ufunc raises ValueError.
np_maximum(x, y) ==
    IF Len(x) = Len(y)
    THEN [raised |-> "", value |-> [k \in 1..Len(x) |-> Max(x[k], y[k])]]
    ELSE IF Len(x) = 1
    THEN [raised |-> "", value |-> [k \in 1..Len(y) |-> Max(x[1], y[k])]]
    ELSE IF Len(y) = 1
    THEN [raised |-> "", value |-> [k \in 1..Len(x) |-> Max(x[k], y[1])]]
    ELSE [raised |-> "ValueError", value |-> None]

\* slice_top(matrix): one slice(0, i) per axis length i of matrix. A slice
\* is [start, stop, open]; open says that the stop is None.
slice_top_mut(m) ==
    [k \in 1..Len(m.shape) |-> [start |-> -m.shape[k], stop |-> 0, open |-> TRUE]]
slice_top(m) ==
    [k \in 1..Len(m.shape) |-> [start |-> 0, stop |-> m.shape[k], open |-> FALSE]]

\* The first index and the end of a slice on an axis of length n (a
\* negative bound counts from the end, and both are clipped to the axis).
slice_start(sl, n) ==
    IF sl.start < 0 THEN Max(0, n + sl.start) ELSE Min(sl.start, n)
slice_stop(sl, n) ==
    IF sl.open THEN n
    ELSE IF sl.stop < 0 THEN Max(0, n + sl.stop) ELSE Min(sl.stop, n)

\* The region target[slices] of an array: where it starts on every axis and
\* its shape. An axis without a slice is taken whole. (The numpy this file
\* runs with reads a list of slices as the tuple of them.)
region(target, slices) ==
    LET n(k) == target.shape[k]
        first(k) == IF k <= Len(slices) THEN slice_start(slices[k], n(k)) ELSE 0
        last(k) == IF k <= Len(slices) THEN slice_stop(slices[k], n(k)) ELSE n(k)
    IN  [start |-> [k \in 1..Len(target.shape) |-> first(k)],
         shape |-> [k \in 1..Len(target.shape) |-> Max(0, last(k) - first(k))]]

\* target[slices] = value: [raised, value], value the target afterwards.
\* More slices than axes raise IndexError; a value that does not broadcast
\* to the region raises ValueError; otherwise the region is overwritten
\* with the (broadcast) value.
setitem(target, slices, value) ==
    IF Len(slices) > Len(target.shape)
    THEN [raised |-> "IndexError", value |-> None]
    ELSE LET reg == region(target, slices)
             inside(idx) ==
                 \A k \in 1..Len(idx) :
                     /\ idx[k] >= reg.start[k]
                     /\ idx[k] < reg.start[k] + reg.shape[k]
         IN  IF ~broadcasts(value.shape, reg.shape)
             THEN [raised |-> "ValueError", value |-> None]
             ELSE [raised |-> "",
                   value |->
                     [shape |-> target.shape,
                      data |-> [idx \in Indices(target.shape) |->
                                  IF inside(idx)
                                  THEN broadcast_at(value, reg.shape,
                                         [k \in 1..Len(idx) |->
                                             idx[k] - reg.start[k]])
                                  ELSE target.data[idx]]]]

\* target[slices], with one slice per axis: the region as an array.
getitem(target, slices) ==
    LET reg == region(target, slices)
    IN  [shape |-> reg.shape,
         data |-> [idx \in Indices(reg.shape) |->
                     target.data[[k \in 1..Len(idx) |-> idx[k] + reg.start[k]]]]]

\* match_size(a, b) on the arrays a and b: [raised, a_new, b_new]. The
\* first statement that raises ends the call.
match_size(a, b) ==
    LET new_shape == np_maximum(a.shape, b.shape)
        failed(exc) == [raised |-> exc, a_new |-> None, b_new |-> None]
    IN  IF new_shape.raised # "" THEN failed(new_shape.raised)
        ELSE LET a_new == setitem(zeros(new_shape.value), slice_top(a), a)
                 b_new == setitem(zeros(new_shape.value), slice_top(b), b)
             IN  IF a_new.raised # "" THEN failed(a_new.raised)
                 ELSE IF b_new.raised # "" THEN failed(b_new.raised)
                 ELSE [raised |-> "", a_new |-> a_new.value,
                       b_new |-> b_new.value]

\* Bounds of the match_size specification: the number of axes of an array
\* and the length of an axis.
MaxRank == 3
MaxSide == 2

Shapes == UNION {Tuples(r, 1..MaxSide) : r \in 1..MaxRank}

\* The position of idx in the row-major order of the entries.
RECURSIVE offset(_, _, _)
offset(idx, shape, k) ==
    IF k > Len(shape) THEN 0
    ELSE LET rest == offset(idx, shape, k + 1)
             RECURSIVE stride(_)
             stride(j) == IF j > Len(shape) THEN 1 ELSE shape[j] * stride(j + 1)
         IN  idx[k] * stride(k + 1) + rest

\* The arrays a caller passes: np.arange(first, first + size).reshape(shape),
\* whose entries are distinct, and include 0 and a negative value when first
\* is -1.
FirstEntries == {-1, 1}

Arrays ==
    {[shape |-> sh, data |-> [idx \in Indices(sh) |-> f + offset(idx, sh, 1)]] :
        sh \in Shapes, f \in FirstEntries}

InitMatchSize ==
    /\ pc = "start"
    /\ call = None
    /\ ret = None
    /\ raised = ""
    /\ heap \in [{"a", "b"} -> Arrays]
    /\ Idle({"heap"})

CallMatchSize ==
    /\ pc = "start"
    /\ pc' = "done"
    /\ call' = [fn |-> "match_size", a |-> heap["a"], b |-> heap["b"]]
    /\ LET r == match_size(heap["a"], heap["b"])
       IN  /\ raised' = r.raised
           /\ IF r.raised # ""
              THEN ret' = None /\ heap' = heap
              ELSE /\ ret' = <<"a_new", "b_new">>
                   /\ heap' = [n \in {"a", "b", "a_new", "b_new"} |->
                                 IF n = "a_new" THEN r.a_new
                                 ELSE IF n = "b_new" THEN r.b_new
                                 ELSE heap[n]]
    /\ UNCHANGED <<terms, mon, matrix, polys>>

NextMatchSize == CallMatchSize

SpecMatchSize == InitMatchSize /\ [][NextMatchSize]_vars

\* old sits in the top corner of new, which is zero everywhere else.
PaddedFrom(new, old, shape) ==
    /\ new.shape = shape
    /\ \A idx \in Indices(shape) :
         new.data[idx] = IF idx \in Indices(old.shape) THEN old.data[idx] ELSE 0
    /\ getitem(new, slice_top(old)) = old

\* C5: for two arrays of one rank, match_size returns two arrays of the
\* element-wise maximum shape, each holding its input in the top corner and
\* zero elsewhere, so that slicing it with slice_top of the input gives the
\* input back; a and b are not modified.
C5_MatchSizePadsToMaxShape ==
    (pc = "done" /\ Len(call.a.shape) = Len(call.b.shape)) =>
        LET shape == [k \in 1..Len(call.a.shape) |->
                        Max(call.a.shape[k], call.b.shape[k])]
        IN  /\ raised = ""
            /\ ret = <<"a_new", "b_new">>
            /\ PaddedFrom(heap[ret[1]], call.a, shape)
            /\ PaddedFrom(heap[ret[2]], call.b, shape)
            /\ heap["a"] = call.a
            /\ heap["b"] = call.b

\* Two 2-D arrays, each longer than the other on one axis, have been padded.
C5_Witness ==
    /\ pc = "done"
    /\ call.a.shape = <<1, 2>>
    /\ call.b.shape = <<2, 1>>
    /\ raised = ""
    /\ heap["a_new"].shape = <<2, 2>>
    /\ heap["b_new"].data[<<0, 0>>] # 0
    /\ heap["b_new"].data[<<0, 1>>] = 0

\* C8: match_size on two arrays that differ in their number of axes fails
\* with an error and returns nothing.
C8_MatchSizeRankMismatchRaises ==
    (pc = "done" /\ Len(call.a.shape) # Len(call.b.shape)) =>
        (raised # "" /\ ret = None)

\* The boolean mask of clean_zeros_from_matrix at an entry x.
below_accuracy_mut(x, accuracy) == x < accuracy
below_accuracy(x, accuracy) == (x < accuracy) /\ (x > -accuracy)

\* clean_zeros_from_matrix(array, accuracy) on heap h, array a name of h:
\* [heap, value]. The masked assignment writes 0 into the buffer array
\* names, and the name is returned.
clean_zeros_from_matrix(h, array, accuracy) ==
    LET old == h[array]
        new == [shape |-> old.shape,
                data |-> [idx \in Indices(old.shape) |->
                            IF below_accuracy(old.data[idx], accuracy) THEN 0
                            ELSE old.data[idx]]]
    IN  [heap |-> [h EXCEPT ![array] = new], value |-> array]

\* Bounds of the clean_zeros_from_matrix specification: the length of the
\* array, the magnitude of its entries and the accuracy, in units of the
\* smallest magnitude told apart.
MaxCleanLen == 3
MaxAbs == 2
MaxAccuracy == 2

CleanArrays ==
    UNION {{[shape |-> <<n>>, data |-> d] :
               d \in [Indices(<<n>>) -> -MaxAbs..MaxAbs]} :
           n \in 1..MaxCleanLen}

InitClean ==
    /\ pc = "start"
    /\ call = None
    /\ ret = None
    /\ raised = ""
    /\ heap \in [{"array"} -> CleanArrays]
    /\ Idle({"heap"})

\* The first call, with any accuracy >= 0.
CallClean ==
    /\ pc = "start"
    /\ pc' = "done"
    /\ raised' = ""
    /\ \E accuracy \in 0..MaxAccuracy :
         LET r == clean_zeros_from_matrix(heap, "array", accuracy)
         IN  /\ call' = [fn |-> "clean_zeros_from_matrix", n |-> 1,
                         array |-> "array", before |-> heap["array"],
                         first |-> heap["array"],
                         accuracy |-> accuracy]
             /\ heap' = r.heap
             /\ ret' = r.value
    /\ UNCHANGED <<terms, mon, matrix, polys>>

\* A second call on the array the first one returned, with its accuracy.
CallCleanAgain ==
    /\ pc = "done"
    /\ call.n = 1
    /\ LET r == clean_zeros_from_matrix(heap, ret, call.accuracy)
       IN  /\ call' = [call EXCEPT !.n = 2, !.array = ret, !.before = heap[ret]]
           /\ heap' = r.heap
           /\ ret' = r.value
    /\ UNCHANGED <<pc, raised, terms, mon, matrix, polys>>

NextClean == CallClean \/ CallCleanAgain

SpecClean == InitClean /\ [][NextClean]_vars

Abs(x) == IF x < 0 THEN -x ELSE x

\* C6: clean_zeros_from_matrix with a tolerance >= 0 writes into the array
\* it was given and returns it; every entry of absolute value below the
\* tolerance is then 0 and every other entry is as before; a second call
\* with the same tolerance changes nothing. (call.before is the content
\* the array had when the call was made, call.n the number of the call.)
C6_CleanZerosInPlace ==
    pc = "done" =>
        /\ raised = ""
        /\ ret = call.array
        /\ DOMAIN heap = {call.array}
        /\ heap[ret].shape = call.before.shape
        /\ \A idx \in Indices(call.before.shape) :
             heap[ret].data[idx] =
                 IF Abs(call.before.data[idx]) < call.accuracy THEN 0
                 ELSE call.before.data[idx]
        /\ call.n = 2 => heap[ret] = call.before

\* A second call has been made on the array [-1, 2, -2], in which the
\* first call, with tolerance 2, zeroed the first entry and kept the others.
C6_Witness ==
    /\ pc = "done"
    /\ call.n = 2
    /\ call.accuracy = 2
    /\ call.first.data = [idx \in Indices(<<3>>) |->
                            IF idx = <<0>> THEN -1
                            ELSE IF idx = <<1>> THEN 2 ELSE -2]
    /\ heap[ret].data = [idx \in Indices(<<3>>) |->
                           IF idx = <<0>> THEN 0
                           ELSE IF idx = <<1>> THEN 2 ELSE -2]

====
